---- MODULE Spec2Model ----
\* A model of webrtc::AudioBuffer (modules/audio_processing/audio_buffer.cc):
\* the channel x band x format state of one instance and every public
\* operation on it.
\*
\* Abstractions
\*   - A channel of a ChannelBuffer is num_bands blocks of num_frames_per_band
\*     samples.  Every operation of AudioBuffer treats the samples of a block
\*     alike, so a block is represented by ONE sample; the frame counts
\*     (160, 320, 480 ...) are kept as the numbers they are.
\*   - A sample is a record [dom, v, rs]: dom is the representation
\*     ("float" normalised, "floatS16" float in the S16 range, "s16" integer
\*     PCM), v the value in fixed point, rs the number of resamplers the
\*     sample went through.  A float holds v / (32768 * Frac), a floatS16
\*     holds v / Frac, an s16 holds v.
\*   - RTC_DCHECK / RTC_CHECK failures end the process: status = "abort".
\*     Undefined behaviour (a null dereference) ends in status = "segv" or
\*     status = "ub" (execution went on with an unspecified state).
\*
\* Observation variables (not members of AudioBuffer)
\*   op, status, steps, consumer, view describe the last call and its result;
\*   producer is the data the last input call (or CopySplitChannelDataFrom)
\*   was given; uses is the set of optional members the last call touched;
\*   mutated tells whether a non-const, non-output call came after the last
\*   input; lastMajor is the last of input / split / merge that succeeded;
\*   heap_allocs, ranCopyFrom, ranDeinterleaveFrom, writes, inputs and nops
\*   count the history.  Inside a dual-format buffer, last is the content of
\*   each channel as of the last mutable view taken while the channel was
\*   active, and fconv / iconv count the conversions into each side since
\*   that view was asked for.
EXTENDS Integers, Sequences, FiniteSets, TLC

VARIABLES
  input_num_frames_, num_input_channels_, proc_num_frames_,
  num_proc_channels_, output_num_frames_,
  num_channels_, num_bands_, num_split_frames_,
  data_, split_data_, output_buffer_, input_buffer_, process_buffer_,
  input_resamplers_, output_resamplers_, splitting_filter_,
  status, op, steps, consumer, view, heap_allocs,
  ranCopyFrom, ranDeinterleaveFrom, writes, inputs, nops,
  producer, mutated, lastMajor, uses

config == <<input_num_frames_, num_input_channels_, proc_num_frames_,
            num_proc_channels_, output_num_frames_, num_bands_,
            num_split_frames_, input_resamplers_, output_resamplers_,
            splitting_filter_>>

vars == <<input_num_frames_, num_input_channels_, proc_num_frames_,
          num_proc_channels_, output_num_frames_,
          num_channels_, num_bands_, num_split_frames_,
          data_, split_data_, output_buffer_, input_buffer_, process_buffer_,
          input_resamplers_, output_resamplers_, splitting_filter_,
          status, op, steps, consumer, view, heap_allocs,
          ranCopyFrom, ranDeinterleaveFrom, writes, inputs, nops,
          producer, mutated, lastMajor, uses>>

-----------------------------------------------------------------------------
\* Bounds of the model.

\* Largest channel count of a producer, a consumer or a set_num_channels call.
MaxChannels == 2
\* Constructions (p, 1, p, 1, p) are explored for every p in 1..MaxProcFrames.
MaxProcFrames == 500
\* Number of distinct input frames a producer can deliver.
NumPatterns == 2
\* Fixed-point resolution of a floatS16 sample: 1 / Frac of an S16 step.
Frac == 2
\* Band writes (split_bands_f, CopySplitChannelDataFrom) over the lifetime.
MaxWrites == 1
\* Input operations (CopyFrom, DeinterleaveFrom) over the lifetime.
MaxInputs == 2
\* Operations of any kind over the lifetime.
MaxOps == 4
\* Largest Band value passed to a band accessor.
MaxBand == 2

-----------------------------------------------------------------------------
\* Program constants.

kSamplesPer16kHzChannel == 160
kSamplesPer32kHzChannel == 320
kSamplesPer48kHzChannel == 480
\* std::numeric_limits<int16_t>::max() and min().
kMaxInt16 == 32767
kMinInt16 == -32768
\* The Band enum: kBand0To8kHz = 0, kBand8To16kHz = 1, kBand16To24kHz = 2.
kBand0To8kHz == 0

\* Processing frame counts of the full constructions of the model, and the
\* frame counts a producer or consumer may announce.
FrameSizes ==
  {kSamplesPer16kHzChannel, kSamplesPer32kHzChannel, kSamplesPer48kHzChannel}
\* Input and output frame counts of the full constructions: the processing
\* rate itself or one other standard rate.
IoFrameSizes(pf) ==
  {pf, IF pf = kSamplesPer48kHzChannel
       THEN kSamplesPer16kHzChannel ELSE kSamplesPer48kHzChannel}

-----------------------------------------------------------------------------
\* Arithmetic helpers.

Min(a, b) == IF a < b THEN a ELSE b
Max(a, b) == IF a > b THEN a ELSE b
Clamp(x, lo, hi) == Max(lo, Min(hi, x))
\* C++ integer division truncates toward zero.
TruncDiv(a, b) == IF a >= 0 THEN a \div b ELSE -((-a) \div b)
\* v / Frac rounded to the nearest integer, halves away from zero.
RoundHalfAway(v) ==
  IF v >= 0 THEN (2 * v + Frac) \div (2 * Frac)
  ELSE -((2 * (-v) + Frac) \div (2 * Frac))

\* rtc::CheckedDivExact(a, b): a / b, which must be exact.
CheckedDivExact(a, b) == a \div b

RECURSIVE SumV(_, _)
\* Sum of the values of channels 0 .. n-1 of a planar or interleaved block.
SumV(f, n) == IF n = 0 THEN 0 ELSE f[n - 1].v + SumV(f, n - 1)

\* The largest rs of channels 0 .. n-1.
RECURSIVE MaxRs(_, _)
MaxRs(f, n) == IF n = 0 THEN 0 ELSE Max(f[n - 1].rs, MaxRs(f, n - 1))

-----------------------------------------------------------------------------
\* Samples and the format conversion primitives (common_audio/audio_util).

Smp(d, val, r) == [dom |-> d, v |-> val, rs |-> r]
\* The content of a consumer slot no call has written.
Unwritten == Smp("unwritten", 0, 0)

FloatToFloatS16(x) ==
  Smp("floatS16", Clamp(x.v, kMinInt16 * Frac, kMaxInt16 * Frac), x.rs)
FloatS16ToFloat(x) == Smp("float", x.v, x.rs)
FloatS16ToS16(x) ==
  Smp("s16", Clamp(RoundHalfAway(x.v), kMinInt16, kMaxInt16), x.rs)
\* The exact cast int16_t -> float.
S16ToFloatS16(x) == Smp("floatS16", x.v * Frac, x.rs)

\* DownmixToMono<float, float>: the frame-wise mean of n planar channels.
DownmixToMono(in, n) == Smp("float", TruncDiv(SumV(in, n), n), MaxRs(in, n))
\* DownmixInterleavedToMono: the integer mean, truncated toward zero.
DownmixInterleavedToMono(in, n) ==
  Smp("s16", TruncDiv(SumV(in, n), n), MaxRs(in, n))

\* PushSincResampler::Resample: an opaque rate converter; the sample is
\* marked as having gone through one more resampler.
Resample(r, x) == [x EXCEPT !.rs = @ + 1]

-----------------------------------------------------------------------------
\* ChannelBuffer<T> and IFChannelBuffer (common_audio/channel_buffer.h).

Chans(n) == 0 .. (n - 1)

NewChannelBuffer(channels, bands, d) ==
  [c \in Chans(channels) |-> [b \in Chans(bands) |-> Smp(d, 0, 0)]]

NewIFChannelBuffer(frames, channels, bands) ==
  [num_frames |-> frames, num_allocated |-> channels,
   num_channels |-> channels, num_bands |-> bands,
   fbuf |-> NewChannelBuffer(channels, bands, "floatS16"),
   ibuf |-> NewChannelBuffer(channels, bands, "s16"),
   fvalid |-> TRUE, ivalid |-> TRUE,
   last |-> NewChannelBuffer(channels, bands, "floatS16"),
   fconv |-> 0, iconv |-> 0]

\* IFChannelBuffer::RefreshF: convert the integer side into a dirty float side.
RefreshF(b) ==
  IF b.fvalid THEN b
  ELSE [b EXCEPT
          !.fbuf = [c \in DOMAIN b.fbuf |->
                      IF c < b.num_channels
                      THEN [k \in DOMAIN b.fbuf[c] |-> S16ToFloatS16(b.ibuf[c][k])]
                      ELSE b.fbuf[c]],
          !.fvalid = TRUE,
          !.fconv = @ + 1]

\* IFChannelBuffer::RefreshI: convert the float side into a dirty integer side.
RefreshI(b) ==
  IF b.ivalid THEN b
  ELSE [b EXCEPT
          !.ibuf = [c \in DOMAIN b.ibuf |->
                      IF c < b.num_channels
                      THEN [k \in DOMAIN b.ibuf[c] |-> FloatS16ToS16(b.fbuf[c][k])]
                      ELSE b.ibuf[c]],
          !.ivalid = TRUE,
          !.iconv = @ + 1]

\* The content of the active channels of a side, recorded as last written.
WithLast(b, side) ==
  [b EXCEPT !.last = [c \in DOMAIN b.last |->
                        IF c < b.num_channels THEN side[c] ELSE b.last[c]]]
\* The float (integer) side was written through a mutable view.
WroteF(b) == WithLast(b, b.fbuf)
WroteI(b) == WithLast(b, b.ibuf)

\* A new write begins: the conversion counters start again.
BeginWrite(b) == [b EXCEPT !.fconv = 0, !.iconv = 0]

\* The four views: a mutable view of a side refreshes the side, marks the
\* other side dirty, and counts as a write of the side.
Fbuf(b) == WroteF([RefreshF(BeginWrite(b)) EXCEPT !.ivalid = FALSE])
FbufConst(b) == RefreshF(b)
Ibuf(b) == WroteI([RefreshI(BeginWrite(b)) EXCEPT !.fvalid = FALSE])
IbufConst(b) == RefreshI(b)

\* IFChannelBuffer::set_num_channels (the caller has checked n <= allocated).
BufSetNumChannels(b, n) == [b EXCEPT !.num_channels = n]

\* An optional object (a unique_ptr) is <<>> when null and <<x>> otherwise.
Null == <<>>
Exists(p) == p # <<>>

-----------------------------------------------------------------------------
\* Construction.

\* Faulty variant: only the 32 kHz frame size is split into bands.
NumBandsFromSamplesPerChannel_Only32k(num_frames) ==
  IF num_frames = kSamplesPer32kHzChannel
  THEN CheckedDivExact(num_frames, kSamplesPer16kHzChannel)
  ELSE 1

NumBandsFromSamplesPerChannel(num_frames) ==
  IF num_frames = kSamplesPer32kHzChannel \/ num_frames = kSamplesPer48kHzChannel
  THEN CheckedDivExact(num_frames, kSamplesPer16kHzChannel)
  ELSE 1

\* The RTC_DCHECKs of the constructor: a legal construction.
LegalConstruction(inf, inch, pf, pch, outf) ==
  /\ inf > 0 /\ pf > 0 /\ outf > 0
  /\ inch > 0 /\ pch > 0
  /\ pch <= inch

NewResampler(src_frames, dst_frames) == [src |-> src_frames, dst |-> dst_frames]

\* process_buffer_ is scratch: every operation writes a channel of it before
\* it reads that channel, so the state keeps its shape and not its samples.
NewProcessBuffer(frames, channels) ==
  [num_frames |-> frames, num_channels |-> channels]
\* The samples of process_buffer_ at the start of an operation.
ProcessBufferSamples(pb) == [c \in Chans(pb.num_channels) |-> Smp("float", 0, 0)]

\* Faulty variant: the intermediate buffer and the resamplers are created
\* only when the input rate differs.
NeedsProcessBuffer_InputOnly(inf, pf, outf) == inf # pf

\* Whether the constructor creates the intermediate process_buffer_.
NeedsProcessBuffer(inf, pf, outf) == inf # pf \/ outf # pf

\* input_resamplers_ as the constructor leaves it.
MakeInputResamplers(inf, pf, outf, pch) ==
  IF NeedsProcessBuffer(inf, pf, outf) /\ inf # pf
  THEN [i \in 1 .. pch |-> NewResampler(inf, pf)]
  ELSE <<>>

\* Faulty variant: the output resamplers are created on the input condition.
MakeOutputResamplers_InputCondition(inf, pf, outf, pch) ==
  IF NeedsProcessBuffer(inf, pf, outf) /\ inf # pf
  THEN [i \in 1 .. pch |-> NewResampler(pf, outf)]
  ELSE <<>>

\* output_resamplers_ as the constructor leaves it.
MakeOutputResamplers(inf, pf, outf, pch) ==
  IF NeedsProcessBuffer(inf, pf, outf) /\ outf # pf
  THEN [i \in 1 .. pch |-> NewResampler(pf, outf)]
  ELSE <<>>

\* Whether the constructor creates split_data_ and splitting_filter_.
NeedsSplit(bands) == bands > 1

Construct(inf, inch, pf, pch, outf) ==
  LET bands == NumBandsFromSamplesPerChannel(pf) IN
  /\ input_num_frames_ = inf
  /\ num_input_channels_ = inch
  /\ proc_num_frames_ = pf
  /\ num_proc_channels_ = pch
  /\ output_num_frames_ = outf
  /\ num_channels_ = pch
  /\ num_bands_ = bands
  /\ num_split_frames_ = CheckedDivExact(pf, bands)
  /\ data_ = NewIFChannelBuffer(pf, pch, 1)
  /\ output_buffer_ = NewIFChannelBuffer(outf, pch, 1)
  /\ process_buffer_ =
       IF NeedsProcessBuffer(inf, pf, outf)
       THEN <<NewProcessBuffer(pf, pch)>>
       ELSE Null
  /\ input_resamplers_ = MakeInputResamplers(inf, pf, outf, pch)
  /\ output_resamplers_ = MakeOutputResamplers(inf, pf, outf, pch)
  /\ split_data_ =
       IF NeedsSplit(bands) THEN <<NewIFChannelBuffer(pf, pch, bands)>> ELSE Null
  /\ splitting_filter_ =
       IF NeedsSplit(bands)
       THEN <<[channels |-> pch, bands |-> bands, frames |-> pf]>>
       ELSE Null
  /\ input_buffer_ = Null

\* The state of the model's variables that do not belong to AudioBuffer.
InitObserver ==
  /\ status = "ok"
  /\ op = "ctor"
  /\ steps = <<>>
  /\ consumer = <<>>
  /\ view = "none"
  /\ heap_allocs = 0
  /\ ranCopyFrom = FALSE
  /\ ranDeinterleaveFrom = FALSE
  /\ writes = 0
  /\ inputs = 0
  /\ nops = 0
  /\ producer = <<>>
  /\ mutated = FALSE
  /\ lastMajor = "none"
  /\ uses = {}

\* The constructions of the model: the three standard processing frame counts
\* with equal or different input and output frame counts and every legal
\* pair of channel counts.
Init ==
  /\ \E pf \in FrameSizes, inch \in 1 .. MaxChannels, pch \in 1 .. MaxChannels :
       \E inf \in IoFrameSizes(pf), outf \in IoFrameSizes(pf) :
          /\ LegalConstruction(inf, inch, pf, pch, outf)
          /\ Construct(inf, inch, pf, pch, outf)
  /\ InitObserver

\* Mono same-rate constructions of every processing frame count up to
\* MaxProcFrames.
InitAnyRate ==
  /\ \E pf \in 1 .. MaxProcFrames :
          /\ LegalConstruction(pf, 1, pf, 1, pf)
          /\ Construct(pf, 1, pf, 1, pf)
  /\ InitObserver

\* An operation can be called: the process is alive, and the model's bound on
\* the length of a lifetime is not reached.
Running == status = "ok" /\ nops < MaxOps

-----------------------------------------------------------------------------
\* What a producer can deliver.

\* Planar float input: pattern p gives channel c the sample FloatSamples[..].
\* The four samples are +1.0, -1.0, the smallest positive step and a small
\* negative value; the channels of one frame all differ.
FloatSamples == <<32768 * Frac, -(32768 * Frac), 1, -(3 * Frac)>>
PlanarInput(p, channels) ==
  [c \in Chans(channels) |-> Smp("float", FloatSamples[((p + c) % 4) + 1], 0)]

\* Interleaved int16 input: slot c of the frame block is channel c.
S16Samples == <<kMaxInt16, kMinInt16, 1, -3>>
InterleavedInput(p, channels) ==
  [c \in Chans(channels) |-> Smp("s16", S16Samples[((p + c) % 4) + 1], 0)]

\* A consumer's buffer before the call: k slots of the announced frame count
\* that nothing has written.
FreshConsumer(kind, frames, k) ==
  [kind |-> kind, frames |-> frames, data |-> [c \in Chans(k) |-> Unwritten]]

\* One entry of the log of an operation's steps: the step, the channel it
\* worked on (-1: none) and num_channels_ when the step started.
Step(name, c, nch) == [step |-> name, ch |-> c, nch |-> nch]
ChannelSteps(name, n, nch) == [i \in 1 .. n |-> Step(name, i - 1, nch)]

\* f with channels 0 .. n-1 replaced by new[c].
WithChannels(f, n, new) ==
  [c \in DOMAIN f |-> IF c < n THEN new[c] ELSE f[c]]

\* The full-band block of every channel of a ChannelBuffer: channels()[c].
FullBand(side) == [c \in DOMAIN side |-> side[c][0]]
\* side with the full-band block of channels 0 .. n-1 replaced by new[c].
WithFullBand(side, n, new) ==
  [c \in DOMAIN side |->
     IF c < n THEN [side[c] EXCEPT ![0] = new[c]] ELSE side[c]]

-----------------------------------------------------------------------------
\* Input.

\* Faulty variant: the channel counts are not reset for the new data.
InitForNewData_NoReset ==
  [num_channels |-> num_channels_, data |-> data_, split |-> split_data_]

\* AudioBuffer::InitForNewData.
InitForNewData ==
  [num_channels |-> num_proc_channels_,
   data |-> BufSetNumChannels(data_, num_proc_channels_),
   split |-> IF Exists(split_data_)
             THEN <<BufSetNumChannels(split_data_[1], num_proc_channels_)>>
             ELSE split_data_]

\* Whether the optional member u = <<name, index>> exists when the call
\* touches it; ib is input_buffer_ as the call's lazy allocation left it.
ResourceExists(u, ib) ==
  CASE u[1] = "process_buffer" -> Exists(process_buffer_)
    [] u[1] = "input_buffer" -> Exists(ib)
    [] u[1] = "input_resampler" -> u[2] < Len(input_resamplers_)
    [] u[1] = "output_resampler" -> u[2] < Len(output_resamplers_)
    [] OTHER -> FALSE

\* The call dereferences a null pointer or indexes past the end of a vector.
NullDeref(us, ib) == \E u \in us : ~ResourceExists(u, ib)

\* The outcomes of such a call: undefined behaviour.
NullDerefOutcomes == {"segv", "ub"}

\* The RTC_DCHECKs that open CopyFrom.
CopyFromPre(frames, channels) ==
  /\ frames = input_num_frames_
  /\ channels = num_input_channels_

\* Faulty variant: a downmix whenever the input has several channels.
NeedToDownmix_AnyMultichannel == num_input_channels_ > 1

\* Faulty variant: a downmix whenever the input has more channels than the
\* processing side.
NeedToDownmix_MoreInputs == num_input_channels_ > num_proc_channels_

\* need_to_downmix of CopyFrom.
NeedToDownmix == num_input_channels_ > 1 /\ num_proc_channels_ = 1

\* Faulty variant: the buffer is created on every downmixing call.
CopyFromAllocates_EveryCall == NeedToDownmix

\* Whether CopyFrom allocates input_buffer_.
CopyFromAllocates == NeedToDownmix /\ ~Exists(input_buffer_)

\* input_buffer_ after the lazy allocation of CopyFrom.
CopyFromInputBuffer ==
  IF CopyFromAllocates
  THEN <<NewIFChannelBuffer(input_num_frames_, num_proc_channels_, 1)>>
  ELSE input_buffer_

\* The optional members CopyFrom touches: input_buffer_ to downmix,
\* process_buffer_ and input_resamplers_[i] to resample.
CopyFromUses ==
  (IF NeedToDownmix THEN {<<"input_buffer", -1>>} ELSE {})
  \cup (IF input_num_frames_ # proc_num_frames_
        THEN {<<"process_buffer", -1>>}
             \cup {<<"input_resampler", i>> : i \in Chans(num_proc_channels_)}
        ELSE {})

\* The body of CopyFrom after its checks, on the planar float input in.
CopyFromBody(in) ==
  LET init == InitForNewData
      nch == init.num_channels
      ib0 == CopyFromInputBuffer
      ib1 == IF NeedToDownmix
             THEN <<WroteF([Fbuf(ib0[1]) EXCEPT
                       !.fbuf[0][0] = DownmixToMono(in, num_input_channels_)])>>
             ELSE ib0
      ptr1 == IF NeedToDownmix THEN FullBand(FbufConst(ib1[1]).fbuf) ELSE in
      resample == input_num_frames_ # proc_num_frames_
      pb == IF resample
            THEN WithChannels(ProcessBufferSamples(process_buffer_[1]),
                   num_proc_channels_,
                   [c \in Chans(num_proc_channels_) |->
                      Resample(input_resamplers_[c + 1], ptr1[c])])
            ELSE <<>>
      ptr2 == IF resample THEN pb ELSE ptr1
      d0 == Fbuf(init.data)
      d1 == WroteF([d0 EXCEPT !.fbuf = WithFullBand(d0.fbuf, num_proc_channels_,
                                   [c \in Chans(num_proc_channels_) |->
                                      FloatToFloatS16(ptr2[c])])])
  IN [num_channels |-> nch, data |-> d1, split |-> init.split,
      input_buffer |-> ib1,
      allocs |-> IF CopyFromAllocates THEN 1 ELSE 0,
      steps |-> <<Step("InitForNewData", -1, num_channels_)>>
                \o (IF CopyFromAllocates
                    THEN <<Step("AllocInputBuffer", -1, nch)>> ELSE <<>>)
                \o (IF NeedToDownmix
                    THEN <<Step("DownmixToMono", 0, nch)>> ELSE <<>>)
                \o (IF resample
                    THEN ChannelSteps("Resample", num_proc_channels_, nch)
                    ELSE <<>>)
                \o ChannelSteps("FloatToFloatS16", num_proc_channels_, nch)]

CopyFrom(frames, channels, p) ==
  /\ Running
  /\ nops' = nops + 1
  /\ inputs < MaxInputs
  /\ op' = "CopyFrom"
  /\ consumer' = <<>>
  /\ view' = "none"
  /\ UNCHANGED <<config, writes>>
  /\ IF ~CopyFromPre(frames, channels)
     THEN /\ status' = "abort"
          /\ steps' = <<>>
          /\ uses' = {}
          /\ UNCHANGED <<num_channels_, data_, split_data_, output_buffer_,
                         input_buffer_, process_buffer_, heap_allocs,
                         ranCopyFrom, ranDeinterleaveFrom, inputs,
                         producer, mutated, lastMajor>>
     ELSE IF NullDeref(CopyFromUses, CopyFromInputBuffer)
     THEN /\ status' \in NullDerefOutcomes
          /\ steps' = <<Step("InitForNewData", -1, num_channels_)>>
          /\ uses' = CopyFromUses
          /\ num_channels_' = InitForNewData.num_channels
          /\ data_' = InitForNewData.data
          /\ split_data_' = InitForNewData.split
          /\ input_buffer_' = CopyFromInputBuffer
          /\ heap_allocs' = heap_allocs + (IF CopyFromAllocates THEN 1 ELSE 0)
          /\ ranCopyFrom' = TRUE
          /\ inputs' = inputs + 1
          /\ producer' = <<[kind |-> "planar", channel |-> -1,
                            data |-> PlanarInput(p, num_input_channels_)]>>
          /\ UNCHANGED <<output_buffer_, process_buffer_, ranDeinterleaveFrom,
                         mutated, lastMajor>>
     ELSE LET r == CopyFromBody(PlanarInput(p, num_input_channels_)) IN
          /\ status' = "ok"
          /\ steps' = r.steps
          /\ uses' = CopyFromUses
          /\ num_channels_' = r.num_channels
          /\ data_' = r.data
          /\ split_data_' = r.split
          /\ input_buffer_' = r.input_buffer
          /\ heap_allocs' = heap_allocs + r.allocs
          /\ ranCopyFrom' = TRUE
          /\ inputs' = inputs + 1
          /\ producer' = <<[kind |-> "planar", channel |-> -1,
                            data |-> PlanarInput(p, num_input_channels_)]>>
          /\ mutated' = FALSE
          /\ lastMajor' = "input"
          /\ UNCHANGED <<output_buffer_, process_buffer_, ranDeinterleaveFrom>>

\* The RTC_DCHECKs that open DeinterleaveFrom.
DeinterleaveFromPre(frame) ==
  /\ frame.num_channels = num_input_channels_
  /\ frame.samples_per_channel = input_num_frames_

\* Faulty variant: the buffer is created on every resampling call.
DeinterleaveFromAllocates_EveryCall == input_num_frames_ # proc_num_frames_

\* Whether DeinterleaveFrom allocates input_buffer_.
DeinterleaveFromAllocates ==
  input_num_frames_ # proc_num_frames_ /\ ~Exists(input_buffer_)

\* input_buffer_ after the lazy allocation of DeinterleaveFrom.
DeinterleaveFromInputBuffer ==
  IF DeinterleaveFromAllocates
  THEN <<NewIFChannelBuffer(input_num_frames_, num_proc_channels_, 1)>>
  ELSE input_buffer_

\* Faulty variant: the plain-deinterleave branch accepts fewer processing
\* channels than input channels.
DeinterleaveChannelsOk_AtMost == num_proc_channels_ <= num_input_channels_

\* The RTC_DCHECK_EQ on the plain-deinterleave branch of DeinterleaveFrom.
DeinterleaveChannelsOk == num_proc_channels_ = num_input_channels_

\* Faulty variant: the destination is taken as a read-only integer view, so
\* the float side is not marked dirty.
DeinterleaveDest_Const(b) == IbufConst(b)

\* The destination of the deinterleaved samples: b->ibuf().
DeinterleaveDest(b) == Ibuf(b)

\* The optional members DeinterleaveFrom touches when the rates differ:
\* input_buffer_ as destination, and input_resamplers_[i] unless the check
\* of the deinterleave branch ends the call first.
DeinterleaveFromUses ==
  IF input_num_frames_ # proc_num_frames_
  THEN {<<"input_buffer", -1>>}
       \cup (IF num_proc_channels_ = 1 \/ DeinterleaveChannelsOk
             THEN {<<"input_resampler", i>> : i \in Chans(num_proc_channels_)}
             ELSE {})
  ELSE {}

\* The body of DeinterleaveFrom after its opening checks.  ok is FALSE when
\* the check of the deinterleave branch fails: the fields then hold the state
\* at the abort.
DeinterleaveFromBody(frame) ==
  LET init == InitForNewData
      nch == init.num_channels
      resample == input_num_frames_ # proc_num_frames_
      ib0 == DeinterleaveFromInputBuffer
      \* deinterleaved = data_->ibuf() or input_buffer_->ibuf()
      dst0 == IF resample THEN DeinterleaveDest(ib0[1])
              ELSE DeinterleaveDest(init.data)
      mono == num_proc_channels_ = 1
      ok == mono \/ DeinterleaveChannelsOk
      dst1 == IF mono
              THEN WroteI([dst0 EXCEPT !.ibuf[0][0] =
                      DownmixInterleavedToMono(frame.data, num_input_channels_)])
              ELSE IF ok
              THEN WroteI([dst0 EXCEPT !.ibuf =
                      WithFullBand(dst0.ibuf, num_proc_channels_, frame.data)])
              ELSE dst0
      ib1 == IF resample THEN <<FbufConst(dst1)>> ELSE ib0
      d0 == IF resample THEN init.data ELSE dst1
      d1 == IF resample /\ ok
            THEN LET df == Fbuf(d0) IN
                 WroteF([df EXCEPT !.fbuf = WithFullBand(df.fbuf, num_proc_channels_,
                    [c \in Chans(num_proc_channels_) |->
                       Resample(input_resamplers_[c + 1], ib1[1].fbuf[c][0])])])
            ELSE d0
  IN [ok |-> ok, num_channels |-> nch, data |-> d1, split |-> init.split,
      input_buffer |-> IF resample /\ ok THEN ib1
                       ELSE IF resample THEN <<dst1>> ELSE ib0,
      allocs |-> IF DeinterleaveFromAllocates THEN 1 ELSE 0,
      steps |-> <<Step("InitForNewData", -1, num_channels_)>>
                \o (IF DeinterleaveFromAllocates
                    THEN <<Step("AllocInputBuffer", -1, nch)>> ELSE <<>>)
                \o (IF mono
                    THEN <<Step("DownmixInterleavedToMono", 0, nch)>>
                    ELSE IF ok
                    THEN <<Step("Deinterleave", -1, nch)>>
                    ELSE <<>>)
                \o (IF resample /\ ok
                    THEN ChannelSteps("Resample", num_proc_channels_, nch)
                    ELSE <<>>)]

DeinterleaveFrom(channels, samples_per_channel, p) ==
  LET frame == [num_channels |-> channels,
                samples_per_channel |-> samples_per_channel,
                data |-> InterleavedInput(p, channels)]
  IN
  /\ Running
  /\ nops' = nops + 1
  /\ inputs < MaxInputs
  /\ op' = "DeinterleaveFrom"
  /\ consumer' = <<>>
  /\ view' = "none"
  /\ UNCHANGED <<config, writes>>
  /\ IF ~DeinterleaveFromPre(frame)
     THEN /\ status' = "abort"
          /\ steps' = <<>>
          /\ uses' = {}
          /\ UNCHANGED <<num_channels_, data_, split_data_, output_buffer_,
                         input_buffer_, process_buffer_, heap_allocs,
                         ranCopyFrom, ranDeinterleaveFrom, inputs,
                         producer, mutated, lastMajor>>
     ELSE IF NullDeref(DeinterleaveFromUses, DeinterleaveFromInputBuffer)
     THEN /\ status' \in NullDerefOutcomes
          /\ steps' = <<Step("InitForNewData", -1, num_channels_)>>
          /\ uses' = DeinterleaveFromUses
          /\ num_channels_' = InitForNewData.num_channels
          /\ data_' = InitForNewData.data
          /\ split_data_' = InitForNewData.split
          /\ input_buffer_' = DeinterleaveFromInputBuffer
          /\ heap_allocs' =
               heap_allocs + (IF DeinterleaveFromAllocates THEN 1 ELSE 0)
          /\ ranDeinterleaveFrom' = TRUE
          /\ inputs' = inputs + 1
          /\ producer' = <<[kind |-> "interleaved", channel |-> -1,
                            data |-> frame.data]>>
          /\ UNCHANGED <<output_buffer_, process_buffer_, ranCopyFrom,
                         mutated, lastMajor>>
     ELSE LET r == DeinterleaveFromBody(frame) IN
          /\ status' = IF r.ok THEN "ok" ELSE "abort"
          /\ steps' = r.steps
          /\ uses' = DeinterleaveFromUses
          /\ num_channels_' = r.num_channels
          /\ data_' = r.data
          /\ split_data_' = r.split
          /\ input_buffer_' = r.input_buffer
          /\ heap_allocs' = heap_allocs + r.allocs
          /\ ranDeinterleaveFrom' = TRUE
          /\ inputs' = inputs + 1
          /\ producer' = <<[kind |-> "interleaved", channel |-> -1,
                            data |-> frame.data]>>
          /\ mutated' = IF r.ok THEN FALSE ELSE mutated
          /\ lastMajor' = IF r.ok THEN "input" ELSE lastMajor
          /\ UNCHANGED <<output_buffer_, process_buffer_, ranCopyFrom>>

-----------------------------------------------------------------------------
\* Output.

\* Faulty variant: a consumer with fewer channels than active is let through.
CopyToPre_AtMost(frames, channels) ==
  /\ frames = output_num_frames_
  /\ (channels <= num_channels_ \/ num_channels_ = 1)

\* The RTC_DCHECKs that open CopyTo.
CopyToPre(frames, channels) ==
  /\ frames = output_num_frames_
  /\ (channels = num_channels_ \/ num_channels_ = 1)

\* Faulty variant: the output loops run over every processing channel.
OutputChannels_AllProc == num_proc_channels_

\* The channels CopyTo and InterleaveTo convert and resample.
OutputChannels == num_channels_

\* Faulty variant: the upmix loop starts one channel late.
Upmix_OffByOne(out, n, k) ==
  [c \in Chans(k) |-> IF c > n THEN out[0] ELSE out[c]]

\* The upmix loop of CopyTo: memcpy(data[i], data[0]) for i in [n, k).
Upmix(out, n, k) == [c \in Chans(k) |-> IF c >= n THEN out[0] ELSE out[c]]

\* Faulty variant: the output is read from the band buffer.
OutputSource_Bands == IF Exists(split_data_) THEN split_data_[1] ELSE data_

\* The buffer CopyTo and InterleaveTo read the processed samples from: data_.
OutputSource == data_

\* The optional members CopyTo touches when the rates differ:
\* process_buffer_ and output_resamplers_[i] of the active channels.
CopyToUses ==
  IF output_num_frames_ # proc_num_frames_
  THEN {<<"process_buffer", -1>>}
       \cup {<<"output_resampler", i>> : i \in Chans(OutputChannels)}
  ELSE {}

\* The body of CopyTo after its checks, into a consumer of k channels.
CopyToBody(frames, k) ==
  LET n == OutputChannels
      resample == output_num_frames_ # proc_num_frames_
      d1 == IF n > 0 THEN Fbuf(OutputSource) ELSE OutputSource
      conv == [c \in Chans(n) |-> FloatS16ToFloat(d1.fbuf[c][0])]
      pb == IF resample
            THEN WithChannels(ProcessBufferSamples(process_buffer_[1]), n, conv)
            ELSE <<>>
      out0 == FreshConsumer("planar", frames, k).data
      out1 == IF resample
              THEN WithChannels(out0, n,
                     [c \in Chans(n) |->
                        Resample(output_resamplers_[c + 1], pb[c])])
              ELSE WithChannels(out0, n, conv)
      out2 == Upmix(out1, n, k)
  IN [data |-> d1,
      consumer |-> [kind |-> "planar", frames |-> frames, data |-> out2],
      steps |-> ChannelSteps("FloatS16ToFloat", n, num_channels_)
                \o (IF resample
                    THEN ChannelSteps("Resample", n, num_channels_)
                    ELSE <<>>)
                \o (IF k > n THEN <<Step("Upmix", 0, num_channels_)>> ELSE <<>>)]

CopyTo(frames, k) ==
  /\ Running
  /\ nops' = nops + 1
  /\ op' = "CopyTo"
  /\ view' = "none"
  /\ UNCHANGED <<config, num_channels_, split_data_, output_buffer_,
                 input_buffer_, process_buffer_, heap_allocs, ranCopyFrom,
                 ranDeinterleaveFrom, writes, inputs,
                 producer, mutated, lastMajor>>
  /\ IF ~CopyToPre(frames, k)
     THEN /\ status' = "abort"
          /\ steps' = <<>>
          /\ uses' = {}
          /\ consumer' = <<FreshConsumer("planar", frames, k)>>
          /\ UNCHANGED data_
     ELSE IF NullDeref(CopyToUses, input_buffer_)
     THEN /\ status' \in NullDerefOutcomes
          /\ steps' = <<>>
          /\ uses' = CopyToUses
          /\ consumer' = <<FreshConsumer("planar", frames, k)>>
          /\ UNCHANGED data_
     ELSE LET r == CopyToBody(frames, k) IN
          /\ status' = "ok"
          /\ steps' = r.steps
          /\ uses' = CopyToUses
          /\ consumer' = <<r.consumer>>
          /\ data_' = r.data

\* The RTC_DCHECKs that open InterleaveTo.
InterleaveToPre(frame_channels, samples_per_channel) ==
  /\ (frame_channels = num_channels_ \/ num_channels_ = 1)
  /\ samples_per_channel = output_num_frames_

\* The optional members InterleaveTo touches when the rates differ:
\* output_resamplers_[i] of the active channels.
InterleaveToUses ==
  IF proc_num_frames_ # output_num_frames_
  THEN {<<"output_resampler", i>> : i \in Chans(OutputChannels)}
  ELSE {}

\* The body of InterleaveTo after its checks, into a frame of k channels.
InterleaveToBody(k, samples_per_channel) ==
  LET n == OutputChannels
      resample == proc_num_frames_ # output_num_frames_
      d1 == IF resample /\ n > 0 THEN Fbuf(OutputSource) ELSE OutputSource
      ob0 == IF resample /\ n > 0 THEN Fbuf(output_buffer_) ELSE output_buffer_
      ob1 == IF resample
             THEN WroteF([ob0 EXCEPT !.fbuf = WithFullBand(ob0.fbuf, n,
                     [c \in Chans(n) |->
                        Resample(output_resamplers_[c + 1], d1.fbuf[c][0])])])
             ELSE ob0
      \* data_ptr->ibuf() of the buffer the frame is read from.
      src == Ibuf(IF resample THEN ob1 ELSE d1)
      out == IF k = num_channels_
             THEN [c \in Chans(k) |-> src.ibuf[c][0]]
             ELSE [c \in Chans(k) |-> src.ibuf[0][0]]
  IN [data |-> IF resample THEN d1 ELSE src,
      output_buffer |-> IF resample THEN src ELSE output_buffer_,
      consumer |-> [kind |-> "interleaved", frames |-> samples_per_channel,
                    data |-> out],
      steps |-> (IF resample
                 THEN ChannelSteps("Resample", n, num_channels_)
                 ELSE <<>>)
                \o (IF k = num_channels_
                    THEN ChannelSteps("Interleave", n, num_channels_)
                    ELSE <<Step("UpmixMonoToInterleaved", 0, num_channels_)>>)]

InterleaveTo(k, samples_per_channel) ==
  /\ Running
  /\ nops' = nops + 1
  /\ op' = "InterleaveTo"
  /\ view' = "none"
  /\ UNCHANGED <<config, num_channels_, split_data_, input_buffer_,
                 process_buffer_, heap_allocs, ranCopyFrom,
                 ranDeinterleaveFrom, writes, inputs,
                 producer, mutated, lastMajor>>
  /\ IF ~InterleaveToPre(k, samples_per_channel)
     THEN /\ status' = "abort"
          /\ steps' = <<>>
          /\ uses' = {}
          /\ consumer' = <<FreshConsumer("interleaved", samples_per_channel, k)>>
          /\ UNCHANGED <<data_, output_buffer_>>
     ELSE IF NullDeref(InterleaveToUses, input_buffer_)
     THEN /\ status' \in NullDerefOutcomes
          /\ steps' = <<>>
          /\ uses' = InterleaveToUses
          /\ consumer' = <<FreshConsumer("interleaved", samples_per_channel, k)>>
          /\ UNCHANGED <<data_, output_buffer_>>
     ELSE LET r == InterleaveToBody(k, samples_per_channel) IN
          /\ status' = "ok"
          /\ steps' = r.steps
          /\ uses' = InterleaveToUses
          /\ consumer' = <<r.consumer>>
          /\ data_' = r.data
          /\ output_buffer_' = r.output_buffer

-----------------------------------------------------------------------------
\* Active channels.

\* ChannelBuffer::set_num_channels requires num_channels <= allocated.
ChannelBufferAccepts(b, n) == n <= b.num_allocated

\* What AudioBuffer::set_num_channels checks itself before it assigns.
SetNumChannelsPre(n) == TRUE

\* AudioBuffer::set_num_channels: num_channels_ is assigned first; data_ and
\* split_data_ follow when their ChannelBuffers accept the count.
SetNumChannelsBody(n) ==
  LET okd == ChannelBufferAccepts(data_, n)
      oks == ~Exists(split_data_) \/ ChannelBufferAccepts(split_data_[1], n)
  IN [ok |-> okd /\ oks,
      num_channels |-> n,
      data |-> IF okd THEN BufSetNumChannels(data_, n) ELSE data_,
      split |-> IF okd /\ oks /\ Exists(split_data_)
                THEN <<BufSetNumChannels(split_data_[1], n)>>
                ELSE split_data_]

set_num_channels(n) ==
  /\ Running
  /\ nops' = nops + 1
  /\ op' = "set_num_channels"
  /\ steps' = <<>>
  /\ consumer' = <<>>
  /\ view' = "none"
  /\ uses' = {}
  /\ mutated' = TRUE
  /\ UNCHANGED <<config, output_buffer_, input_buffer_, process_buffer_,
                 heap_allocs, ranCopyFrom, ranDeinterleaveFrom, writes, inputs,
                 producer, lastMajor>>
  /\ IF ~SetNumChannelsPre(n)
     THEN /\ status' = "abort"
          /\ UNCHANGED <<num_channels_, data_, split_data_>>
     ELSE LET r == SetNumChannelsBody(n) IN
          /\ status' = IF r.ok THEN "ok" ELSE "abort"
          /\ num_channels_' = r.num_channels
          /\ data_' = r.data
          /\ split_data_' = r.split

-----------------------------------------------------------------------------
\* Frequency bands.

\* SplittingFilter::Analysis: an opaque filter bank.  The model's filter puts
\* the full-band block into band 0 and silence into the bands above.
Analysis(data, split) ==
  LET d == FbufConst(data)
      sp == Fbuf(split)
  IN [data |-> d,
      split |-> WroteF([sp EXCEPT !.fbuf =
                   [c \in DOMAIN sp.fbuf |->
                      IF c < d.num_channels
                      THEN [b \in DOMAIN sp.fbuf[c] |->
                              IF b = 0 THEN d.fbuf[c][0]
                              ELSE Smp("floatS16", 0, d.fbuf[c][0].rs)]
                      ELSE sp.fbuf[c]]])]

\* SplittingFilter::Synthesis: the inverse, the sum of the bands.
Synthesis(split, data) ==
  LET sp == FbufConst(split)
      d == Fbuf(data)
  IN [split |-> sp,
      data |-> WroteF([d EXCEPT !.fbuf =
                  [c \in DOMAIN d.fbuf |->
                     IF c < sp.num_channels
                     THEN [d.fbuf[c] EXCEPT ![0] =
                             Smp("floatS16", SumV(sp.fbuf[c], sp.num_bands),
                                 MaxRs(sp.fbuf[c], sp.num_bands))]
                     ELSE d.fbuf[c]]])]

\* Faulty variant: the band transforms insist on an earlier input.
BandTransformPre_AfterInput == inputs >= 1

\* What SplitIntoFrequencyBands and MergeFrequencyBands check before they
\* dereference splitting_filter_.
BandTransformPre == TRUE

\* The outcomes of splitting_filter_->... : the call when the filter exists,
\* and otherwise a null dereference, which is undefined behaviour.
FilterCallOutcomes ==
  IF Exists(splitting_filter_) THEN {"ok"} ELSE {"segv", "ub"}

SplitIntoFrequencyBands ==
  /\ Running
  /\ nops' = nops + 1
  /\ op' = "SplitIntoFrequencyBands"
  /\ consumer' = <<>>
  /\ view' = "none"
  /\ uses' = {}
  /\ mutated' = TRUE
  /\ UNCHANGED <<config, num_channels_, output_buffer_, input_buffer_,
                 process_buffer_, heap_allocs, ranCopyFrom,
                 ranDeinterleaveFrom, writes, inputs, producer>>
  /\ IF ~BandTransformPre
     THEN /\ status' = "abort"
          /\ steps' = <<>>
          /\ UNCHANGED <<data_, split_data_, lastMajor>>
     ELSE \E outcome \in FilterCallOutcomes :
          /\ status' = outcome
          /\ lastMajor' = IF outcome = "ok" THEN "split" ELSE lastMajor
          /\ IF outcome = "ok"
             THEN LET r == Analysis(data_, split_data_[1]) IN
                  /\ steps' = <<Step("Analysis", -1, num_channels_)>>
                  /\ data_' = r.data
                  /\ split_data_' = <<r.split>>
             ELSE /\ steps' = <<>>
                  /\ UNCHANGED <<data_, split_data_>>

MergeFrequencyBands ==
  /\ Running
  /\ nops' = nops + 1
  /\ op' = "MergeFrequencyBands"
  /\ consumer' = <<>>
  /\ view' = "none"
  /\ uses' = {}
  /\ mutated' = TRUE
  /\ UNCHANGED <<config, num_channels_, output_buffer_, input_buffer_,
                 process_buffer_, heap_allocs, ranCopyFrom,
                 ranDeinterleaveFrom, writes, inputs, producer>>
  /\ IF ~BandTransformPre
     THEN /\ status' = "abort"
          /\ steps' = <<>>
          /\ UNCHANGED <<data_, split_data_, lastMajor>>
     ELSE \E outcome \in FilterCallOutcomes :
          /\ status' = outcome
          /\ lastMajor' = IF outcome = "ok" THEN "merge" ELSE lastMajor
          /\ IF outcome = "ok"
             THEN LET r == Synthesis(split_data_[1], data_) IN
                  /\ steps' = <<Step("Synthesis", -1, num_channels_)>>
                  /\ data_' = r.data
                  /\ split_data_' = <<r.split>>
             ELSE /\ steps' = <<>>
                  /\ UNCHANGED <<data_, split_data_>>

\* The buffer the band views come from: split_data_ if present, else data_.
BandBuffer == IF Exists(split_data_) THEN split_data_[1] ELSE data_
BandBufferName == IF Exists(split_data_) THEN "split_data" ELSE "data"

\* AudioBuffer::split_channels_const_f(band): what the returned view aliases.
SplitChannelsConstView(band) ==
  IF Exists(split_data_) THEN "split_data"
  ELSE IF band = kBand0To8kHz THEN "data" ELSE "null"

split_channels_const_f(band) ==
  /\ Running
  /\ nops' = nops + 1
  /\ Exists(split_data_) => band < num_bands_
  /\ op' = "split_channels_const_f"
  /\ status' = "ok"
  /\ steps' = <<>>
  /\ consumer' = <<>>
  /\ view' = SplitChannelsConstView(band)
  /\ split_data_' = IF Exists(split_data_)
                    THEN <<FbufConst(split_data_[1])>> ELSE split_data_
  /\ data_' = IF ~Exists(split_data_) /\ band = kBand0To8kHz
              THEN FbufConst(data_) ELSE data_
  /\ uses' = {}
  /\ UNCHANGED <<config, num_channels_, output_buffer_, input_buffer_,
                 process_buffer_, heap_allocs, ranCopyFrom,
                 ranDeinterleaveFrom, writes, inputs,
                 producer, mutated, lastMajor>>

\* AudioBuffer::channels_const_f.
channels_const_f ==
  /\ Running
  /\ nops' = nops + 1
  /\ op' = "channels_const_f"
  /\ status' = "ok"
  /\ steps' = <<>>
  /\ consumer' = <<>>
  /\ view' = "data"
  /\ data_' = FbufConst(data_)
  /\ uses' = {}
  /\ UNCHANGED <<config, num_channels_, split_data_, output_buffer_,
                 input_buffer_, process_buffer_, heap_allocs, ranCopyFrom,
                 ranDeinterleaveFrom, writes, inputs,
                 producer, mutated, lastMajor>>

\* ChannelBuffer::bands(channel) requires channel < num_channels.
BandsAccepts(b, channel) == channel < b.num_channels

\* The band buffer after AudioBuffer::split_bands_f(channel) and a write of
\* val to band k of that channel through the returned view.
WriteBand(b, channel, k, val) ==
  WroteF([Fbuf(b) EXCEPT !.fbuf[channel][k] = val])

\* The assignments of the band buffer b to split_data_ or data_.
SetBandBuffer(b) ==
  /\ split_data_' = IF Exists(split_data_) THEN <<b>> ELSE split_data_
  /\ data_' = IF Exists(split_data_) THEN data_ ELSE b

\* The processing core writes one band block through split_bands_f(channel).
split_bands_f(channel, k) ==
  /\ Running
  /\ nops' = nops + 1
  /\ writes < MaxWrites
  /\ k < num_bands_
  /\ op' = "split_bands_f"
  /\ steps' = <<>>
  /\ consumer' = <<>>
  /\ view' = BandBufferName
  /\ uses' = {}
  /\ mutated' = TRUE
  /\ UNCHANGED <<config, num_channels_, output_buffer_, input_buffer_,
                 process_buffer_, heap_allocs, ranCopyFrom,
                 ranDeinterleaveFrom, inputs, producer, lastMajor>>
  /\ IF ~BandsAccepts(BandBuffer, channel)
     THEN /\ status' = "abort"
          /\ SetBandBuffer(Fbuf(BandBuffer))
          /\ UNCHANGED writes
     ELSE /\ status' = "ok"
          /\ SetBandBuffer(WriteBand(BandBuffer, channel, k,
                                     Smp("floatS16", 7 * Frac + 1, 0)))
          /\ writes' = writes + 1

\* AudioBuffer::CopySplitChannelDataTo: the int16 band blocks of one channel.
CopySplitChannelDataToBody(channel) ==
  LET b == Fbuf(BandBuffer) IN
  [buffer |-> b,
   out |-> [k \in Chans(num_bands_) |-> FloatS16ToS16(b.fbuf[channel][k])]]

CopySplitChannelDataTo(channel) ==
  /\ Running
  /\ nops' = nops + 1
  /\ op' = "CopySplitChannelDataTo"
  /\ steps' = <<>>
  /\ view' = "none"
  /\ uses' = {}
  /\ UNCHANGED <<config, num_channels_, output_buffer_, input_buffer_,
                 process_buffer_, heap_allocs, ranCopyFrom,
                 ranDeinterleaveFrom, writes, inputs,
                 producer, mutated, lastMajor>>
  /\ IF ~BandsAccepts(BandBuffer, channel)
     THEN /\ status' = "abort"
          /\ consumer' = <<[kind |-> "split", frames |-> num_split_frames_,
                             channel |-> channel,
                             data |-> FreshConsumer("split", num_split_frames_,
                                                    num_bands_).data]>>
          /\ SetBandBuffer(Fbuf(BandBuffer))
     ELSE LET r == CopySplitChannelDataToBody(channel) IN
          /\ status' = "ok"
          /\ consumer' = <<[kind |-> "split", frames |-> num_split_frames_,
                             channel |-> channel, data |-> r.out]>>
          /\ SetBandBuffer(r.buffer)

\* The int16 band blocks a caller hands to CopySplitChannelDataFrom.
SplitInput(p) ==
  [k \in Chans(num_bands_) |-> Smp("s16", S16Samples[((p + k) % 4) + 1], 0)]

\* Faulty variant: every band block is filled from the block of band 0.
CopySplitChannelDataFromBody_Band0Only(channel, src) ==
  LET b == Fbuf(BandBuffer) IN
  WroteF([b EXCEPT !.fbuf[channel] =
            [k \in Chans(num_bands_) |-> S16ToFloatS16(src[0])]])

\* AudioBuffer::CopySplitChannelDataFrom: band_data[i] = split_band_data[k][i].
CopySplitChannelDataFromBody(channel, src) ==
  LET b == Fbuf(BandBuffer) IN
  WroteF([b EXCEPT !.fbuf[channel] =
            [k \in Chans(num_bands_) |-> S16ToFloatS16(src[k])]])

CopySplitChannelDataFrom(channel, p) ==
  /\ Running
  /\ nops' = nops + 1
  /\ writes < MaxWrites
  /\ op' = "CopySplitChannelDataFrom"
  /\ steps' = <<>>
  /\ consumer' = <<>>
  /\ view' = "none"
  /\ uses' = {}
  /\ mutated' = TRUE
  /\ UNCHANGED <<config, num_channels_, output_buffer_, input_buffer_,
                 process_buffer_, heap_allocs, ranCopyFrom,
                 ranDeinterleaveFrom, inputs, lastMajor>>
  /\ IF ~BandsAccepts(BandBuffer, channel)
     THEN /\ status' = "abort"
          /\ SetBandBuffer(Fbuf(BandBuffer))
          /\ UNCHANGED <<writes, producer>>
     ELSE /\ status' = "ok"
          /\ SetBandBuffer(CopySplitChannelDataFromBody(channel, SplitInput(p)))
          /\ writes' = writes + 1
          /\ producer' = <<[kind |-> "split", channel |-> channel,
                            data |-> SplitInput(p)]>>

\* The frame counts a caller announces: the right one and a wrong one.
CallerFrames == IoFrameSizes(proc_num_frames_)

Next ==
  \/ \E f \in CallerFrames, ch \in 1 .. MaxChannels, p \in 0 .. (NumPatterns - 1) :
       CopyFrom(f, ch, p)
  \/ \E ch \in 1 .. MaxChannels, f \in CallerFrames, p \in 0 .. (NumPatterns - 1) :
       DeinterleaveFrom(ch, f, p)
  \/ \E f \in CallerFrames, k \in 1 .. (MaxChannels + 1) : CopyTo(f, k)
  \/ \E k \in 1 .. (MaxChannels + 1), f \in CallerFrames : InterleaveTo(k, f)
  \/ \E n \in 0 .. (MaxChannels + 1) : set_num_channels(n)
  \/ SplitIntoFrequencyBands
  \/ MergeFrequencyBands
  \/ \E band \in 0 .. MaxBand : split_channels_const_f(band)
  \/ channels_const_f
  \/ \E c \in Chans(MaxChannels), k \in 0 .. MaxBand : split_bands_f(c, k)
  \/ \E c \in Chans(MaxChannels) : CopySplitChannelDataTo(c)
  \/ \E c \in Chans(MaxChannels), p \in 0 .. (NumPatterns - 1) :
       CopySplitChannelDataFrom(c, p)

Spec == Init /\ [][Next]_vars

\* The constructions of every processing frame count, and the operations that
\* depend on the band count.
NextAnyRate ==
  \/ SplitIntoFrequencyBands
  \/ MergeFrequencyBands
  \/ \E band \in 0 .. MaxBand : split_channels_const_f(band)
  \/ \E c \in Chans(MaxChannels) : CopySplitChannelDataTo(c)

SpecAnyRate == InitAnyRate /\ [][NextAnyRate]_vars

\* Constructions with up to MaxChannels + 1 channels, so that the input can
\* have more channels than a multi-channel processing side: one band, the
\* 16 kHz processing frame count, equal or different input and output frame
\* counts.
InitWide ==
  /\ \E inch \in 1 .. (MaxChannels + 1), pch \in 1 .. (MaxChannels + 1) :
       \E inf \in IoFrameSizes(kSamplesPer16kHzChannel),
          outf \in IoFrameSizes(kSamplesPer16kHzChannel) :
          /\ LegalConstruction(inf, inch, kSamplesPer16kHzChannel, pch, outf)
          /\ Construct(inf, inch, kSamplesPer16kHzChannel, pch, outf)
  /\ InitObserver

\* The input, output and channel-count operations on those constructions.
NextWide ==
  \/ \E f \in CallerFrames, ch \in 1 .. (MaxChannels + 1),
        p \in 0 .. (NumPatterns - 1) : CopyFrom(f, ch, p)
  \/ \E ch \in 1 .. (MaxChannels + 1), f \in CallerFrames,
        p \in 0 .. (NumPatterns - 1) : DeinterleaveFrom(ch, f, p)
  \/ \E f \in CallerFrames, k \in 1 .. (MaxChannels + 1) : CopyTo(f, k)
  \/ \E k \in 1 .. (MaxChannels + 1), f \in CallerFrames : InterleaveTo(k, f)
  \/ \E n \in 0 .. (MaxChannels + 2) : set_num_channels(n)

SpecWide == InitWide /\ [][NextWide]_vars

-----------------------------------------------------------------------------
\* Properties.

InputOps == {"CopyFrom", "DeinterleaveFrom"}
OutputOps == {"CopyTo", "InterleaveTo"}

\* The channels the steps named name of the last operation worked on.
StepChannels(log, name) ==
  {log[i].ch : i \in {j \in 1 .. Len(log) : log[j].step = name}}

\* C1: after every successful input operation (CopyFrom or DeinterleaveFrom)
\* num_channels_ equals num_proc_channels_, whatever it was before, and so do
\* the channel counts of data_ and of split_data_ when present; the reset is
\* the first step of the operation, so every downmix, resample and conversion
\* step of that input runs with the reset count.
C1_ActiveChannelReset ==
  (op \in InputOps /\ status = "ok") =>
    /\ num_channels_ = num_proc_channels_
    /\ data_.num_channels = num_proc_channels_
    /\ Exists(split_data_) => split_data_[1].num_channels = num_proc_channels_
    /\ Len(steps) >= 2
    /\ steps[1].step = "InitForNewData"
    /\ \A i \in 2 .. Len(steps) :
         /\ steps[i].step # "InitForNewData"
         /\ steps[i].nch = num_proc_channels_

\* An input operation that found num_channels_ narrowed and reset it.
C1_Witness ==
  /\ op \in InputOps /\ status = "ok"
  /\ steps[1].nch >= 1 /\ steps[1].nch < num_proc_channels_
  /\ num_channels_ = num_proc_channels_

\* C2: in every live state 1 <= num_channels_ <= num_proc_channels_, because
\* set_num_channels(k) with k = 0 or k > num_proc_channels_ aborts.
C2_ActiveChannelsInRange ==
  status = "ok" => (1 <= num_channels_ /\ num_channels_ <= num_proc_channels_)

\* C3: no operation other than set_num_channels and the two input operations
\* changes num_channels_ (or the channel counts of data_ and split_data_), and
\* CopyTo and InterleaveTo convert, resample and interleave exactly the
\* channels [0, num_channels_) of data_.
C3_NarrowingHonored ==
  [][ /\ op' \notin (InputOps \cup {"set_num_channels"}) =>
           /\ num_channels_' = num_channels_
           /\ data_'.num_channels = data_.num_channels
           /\ Exists(split_data_) =>
                split_data_'[1].num_channels = split_data_[1].num_channels
      /\ (op' = "CopyTo" /\ status' = "ok") =>
           /\ StepChannels(steps', "FloatS16ToFloat") = Chans(num_channels_)
           /\ StepChannels(steps', "Resample") =
                (IF output_num_frames_ # proc_num_frames_
                 THEN Chans(num_channels_) ELSE {})
      /\ (op' = "InterleaveTo" /\ status' = "ok") =>
           /\ StepChannels(steps', "Resample") =
                (IF output_num_frames_ # proc_num_frames_
                 THEN Chans(num_channels_) ELSE {})
           /\ StepChannels(steps', "Interleave")
                \cup StepChannels(steps', "UpmixMonoToInterleaved")
                = Chans(num_channels_)
    ]_vars

\* An output of a buffer narrowed to fewer channels than it processes, with
\* resampling, two operations after the input.
C3_Witness ==
  /\ op \in OutputOps /\ status = "ok"
  /\ inputs >= 1 /\ nops >= 4
  /\ 1 <= num_channels_ /\ num_channels_ < num_proc_channels_
  /\ output_num_frames_ # proc_num_frames_
  /\ StepChannels(steps, "Resample") = Chans(num_channels_)

\* Processing channel 0 as CopyTo delivers it: converted to the float range
\* and, when the rates differ, resampled.
ExpectedPlanar0 ==
  LET x == FloatS16ToFloat(FbufConst(data_).fbuf[0][0]) IN
  IF output_num_frames_ # proc_num_frames_
  THEN Resample(output_resamplers_[1], x) ELSE x

\* Processing channel 0 as InterleaveTo delivers it: resampled when the rates
\* differ, and converted to int16.
ExpectedInterleaved0 ==
  IF output_num_frames_ # proc_num_frames_
  THEN FloatS16ToS16(Resample(output_resamplers_[1], FbufConst(data_).fbuf[0][0]))
  ELSE IbufConst(data_).ibuf[0][0]

\* C4: with num_channels_ = 1 and a consumer of k >= 1 channels, after CopyTo
\* (and after InterleaveTo) every consumer channel holds processing channel 0,
\* converted and optionally resampled.
C4_UpmixContract ==
  [][ /\ (op' = "CopyTo" /\ status' = "ok" /\ num_channels_ = 1) =>
           \A c \in DOMAIN consumer'[1].data :
              consumer'[1].data[c] = ExpectedPlanar0
      /\ (op' = "InterleaveTo" /\ status' = "ok" /\ num_channels_ = 1) =>
           \A c \in DOMAIN consumer'[1].data :
              consumer'[1].data[c] = ExpectedInterleaved0
    ]_vars

\* A two-channel consumer filled from a two-channel buffer narrowed to one
\* channel, the channels of the input being different.
C4_Witness ==
  /\ op = "CopyTo" /\ status = "ok"
  /\ num_channels_ = 1 /\ num_proc_channels_ = 2
  /\ Cardinality(DOMAIN consumer[1].data) = 2
  /\ consumer[1].data[1] = consumer[1].data[0]
  /\ consumer[1].data[0].dom = "float"
  /\ data_.fbuf[0][0] # data_.fbuf[1][0]

\* C5: CopyTo and InterleaveTo abort on a frame count other than
\* output_num_frames_, and on a consumer channel count other than
\* num_channels_ when num_channels_ > 1; the aborted call writes no consumer
\* sample.
C5_OutputRejects ==
  (op \in OutputOps /\
     (\/ consumer[1].frames # output_num_frames_
      \/ (num_channels_ > 1 /\
            Cardinality(DOMAIN consumer[1].data) # num_channels_))) =>
    /\ status = "abort"
    /\ \A c \in DOMAIN consumer[1].data : consumer[1].data[c] = Unwritten

\* A rejected InterleaveTo into a frame of the right size with more channels
\* than the two active ones.
C5_Witness ==
  /\ op = "InterleaveTo" /\ status = "abort"
  /\ consumer[1].frames = output_num_frames_
  /\ num_channels_ = 2
  /\ Cardinality(DOMAIN consumer[1].data) = 3
  /\ consumer[1].data[2] = Unwritten

\* C6: once an input operation has run, no operation performs heap
\* allocation.
C6_NoAllocationAfterFirstInput ==
  [][inputs >= 1 => heap_allocs' = heap_allocs]_vars

\* C6, amended: the only heap allocation after construction is the creation
\* of input_buffer_, by the first CopyFrom of an instance that downmixes or by
\* the first DeinterleaveFrom of an instance that resamples its input,
\* whichever comes first, and only when input_buffer_ does not exist; it
\* happens at most once, and it can follow an earlier input of the other kind.
C6_AllocationOnlyOnFirstNeed ==
  [][heap_allocs' # heap_allocs =>
       /\ heap_allocs = 0 /\ heap_allocs' = 1
       /\ ~Exists(input_buffer_) /\ Exists(input_buffer_')
       /\ \/ /\ op' = "CopyFrom" /\ ~ranCopyFrom
             /\ num_input_channels_ > 1 /\ num_proc_channels_ = 1
          \/ /\ op' = "DeinterleaveFrom" /\ ~ranDeinterleaveFrom
             /\ input_num_frames_ # proc_num_frames_
    ]_vars

\* The first DeinterleaveFrom allocates after a CopyFrom that did not.
C6_Witness ==
  /\ op = "DeinterleaveFrom" /\ status = "ok"
  /\ ranCopyFrom /\ inputs = 2
  /\ heap_allocs = 1
  /\ \E i \in 1 .. Len(steps) : steps[i].step = "AllocInputBuffer"

\* Whether the history of the instance calls for input_buffer_.
InputBufferNeeded ==
  \/ ranCopyFrom /\ num_input_channels_ > 1 /\ num_proc_channels_ = 1
  \/ ranDeinterleaveFrom /\ input_num_frames_ # proc_num_frames_

\* C7: input_buffer_ is created at most once and is never replaced or
\* released; it exists exactly when an earlier CopyFrom ran with
\* num_input_channels_ > 1 and num_proc_channels_ = 1 or an earlier
\* DeinterleaveFrom ran with input_num_frames_ # proc_num_frames_.
C7_LazyInputBuffer ==
  [][ /\ heap_allocs' <= 1
      /\ Exists(input_buffer_') <=> InputBufferNeeded'
      /\ Exists(input_buffer_') <=> heap_allocs' = 1
      /\ Exists(input_buffer_) =>
           /\ Exists(input_buffer_')
           /\ heap_allocs' = heap_allocs
           /\ input_buffer_'[1].num_frames = input_buffer_[1].num_frames
           /\ input_buffer_'[1].num_allocated = input_buffer_[1].num_allocated
    ]_vars

\* A second downmixing CopyFrom reuses the buffer the first one created.
C7_Witness ==
  /\ op = "CopyFrom" /\ status = "ok" /\ inputs = 2
  /\ ~ranDeinterleaveFrom
  /\ Exists(input_buffer_) /\ heap_allocs = 1
  /\ \A i \in 1 .. Len(steps) : steps[i].step # "AllocInputBuffer"

\* C8: SplitIntoFrequencyBands and MergeFrequencyBands on an instance with
\* num_bands_ = 1 abort on a check instead of calling the filter; with
\* num_bands_ > 1 they run Analysis and Synthesis.
C8_BandTransformsChecked ==
  op \in {"SplitIntoFrequencyBands", "MergeFrequencyBands"} =>
    /\ num_bands_ = 1 => status = "abort"
    /\ num_bands_ > 1 =>
         /\ status = "ok"
         /\ steps = <<Step(IF op = "SplitIntoFrequencyBands"
                           THEN "Analysis" ELSE "Synthesis",
                           -1, num_channels_)>>

\* C9: in every state input_resamplers_ holds num_proc_channels_ converters
\* when input_num_frames_ # proc_num_frames_ and none otherwise,
\* output_resamplers_ likewise for output_num_frames_, and split_data_ and
\* splitting_filter_ exist exactly when num_bands_ > 1.
C9_OptionalCollaborators ==
  /\ Len(input_resamplers_) =
       (IF input_num_frames_ # proc_num_frames_ THEN num_proc_channels_ ELSE 0)
  /\ Len(output_resamplers_) =
       (IF output_num_frames_ # proc_num_frames_ THEN num_proc_channels_ ELSE 0)
  /\ \A i \in 1 .. Len(input_resamplers_) :
       input_resamplers_[i] = NewResampler(input_num_frames_, proc_num_frames_)
  /\ \A i \in 1 .. Len(output_resamplers_) :
       output_resamplers_[i] = NewResampler(proc_num_frames_, output_num_frames_)
  /\ Exists(split_data_) <=> num_bands_ > 1
  /\ Exists(splitting_filter_) <=> num_bands_ > 1

\* A two-channel buffer that resamples its input only and splits into bands,
\* late in its life.
C9_Witness ==
  /\ input_num_frames_ # proc_num_frames_
  /\ output_num_frames_ = proc_num_frames_
  /\ num_proc_channels_ = 2
  /\ Len(input_resamplers_) = 2 /\ Len(output_resamplers_) = 0
  /\ Exists(split_data_) /\ Exists(splitting_filter_)
  /\ inputs >= 1 /\ nops >= 3 /\ status = "ok"

\* C10: num_bands_ is 2 for 320 processing frames, 3 for 480 and 1 for every
\* other count; it is always 1, 2 or 3, and num_split_frames_ * num_bands_ is
\* exactly proc_num_frames_.
C10_BandDerivation ==
  /\ proc_num_frames_ = 320 => num_bands_ = 2
  /\ proc_num_frames_ = 480 => num_bands_ = 3
  /\ proc_num_frames_ \notin {320, 480} => num_bands_ = 1
  /\ num_bands_ \in {1, 2, 3}
  /\ num_split_frames_ * num_bands_ = proc_num_frames_

\* A 48 kHz buffer of three bands of 160 frames, after an operation.
C10_Witness ==
  /\ proc_num_frames_ = 480 /\ num_bands_ = 3 /\ num_split_frames_ = 160
  /\ nops >= 1

\* The names of the steps of the last operation.
StepNames(log) == {log[i].step : i \in 1 .. Len(log)}

\* The construction neither resamples nor changes the channel count.
MatchingShape ==
  /\ input_num_frames_ = proc_num_frames_
  /\ output_num_frames_ = proc_num_frames_
  /\ num_input_channels_ = num_proc_channels_

\* Two float samples differ by at most 1/32768.
WithinRoundTrip(x, y) ==
  /\ x.dom = "float" /\ y.dom = "float"
  /\ x.v - y.v <= Frac /\ y.v - x.v <= Frac

\* C11: with equal frame counts and equal channel counts, a CopyTo into a
\* consumer of that many channels that follows a CopyFrom with no mutating
\* call in between delivers, in channel c, input channel c of that CopyFrom
\* within 1/32768; the CopyFrom ran the range scaling only and the CopyTo its
\* inverse only: no downmix, resampling or upmix step.
C11_ShapePreservation ==
  [][ /\ (op' = "CopyFrom" /\ status' = "ok" /\ MatchingShape) =>
           StepNames(steps') = {"InitForNewData", "FloatToFloatS16"}
      /\ (/\ op' = "CopyTo" /\ status' = "ok" /\ MatchingShape
          /\ Exists(producer) /\ ~mutated
          /\ Cardinality(DOMAIN consumer'[1].data) = num_proc_channels_) =>
           /\ producer[1].kind = "planar" =>
                \A c \in Chans(num_proc_channels_) :
                   /\ WithinRoundTrip(consumer'[1].data[c], producer[1].data[c])
                   /\ consumer'[1].data[c].rs = 0
           /\ StepNames(steps') = {"FloatS16ToFloat"}
    ]_vars

\* A two-channel CopyTo after a CopyFrom and an InterleaveTo, in which the
\* input sample +1.0 comes back as 32767/32768.
C11_Witness ==
  /\ op = "CopyTo" /\ status = "ok" /\ MatchingShape /\ ~mutated
  /\ nops >= 3
  /\ num_proc_channels_ = 2
  /\ Exists(producer) /\ producer[1].kind = "planar"
  /\ Cardinality(DOMAIN consumer[1].data) = 2
  /\ \E c \in Chans(2) :
        /\ producer[1].data[c].v = 32768 * Frac
        /\ consumer[1].data[c].v = kMaxInt16 * Frac
  /\ data_.fvalid /\ ~data_.ivalid /\ data_.fconv = 1

\* C12: an output or a SplitIntoFrequencyBands before any input, and a
\* MergeFrequencyBands that does not follow a SplitIntoFrequencyBands of the
\* same input, is not accepted.
C12_OrderEnforced ==
  [][ /\ (op' \in OutputOps \cup {"SplitIntoFrequencyBands"} /\ inputs = 0) =>
           status' # "ok"
      /\ (op' = "MergeFrequencyBands" /\ lastMajor # "split") =>
           status' # "ok"
    ]_vars

\* C12, amended: the buffer keeps no record of the order of the calls.
\* Whatever came before, CopyTo and InterleaveTo succeed exactly when the
\* frame count is output_num_frames_ and the channel count is num_channels_
\* (or num_channels_ is 1), and SplitIntoFrequencyBands and
\* MergeFrequencyBands run the filter exactly when num_bands_ > 1.
C12_OrderNotEnforced ==
  [][ /\ op' \in OutputOps =>
           (status' = "ok" <=>
              /\ consumer'[1].frames = output_num_frames_
              /\ \/ Cardinality(DOMAIN consumer'[1].data) = num_channels_
                 \/ num_channels_ = 1)
      /\ op' \in {"SplitIntoFrequencyBands", "MergeFrequencyBands"} =>
           /\ status' = "ok" <=> num_bands_ > 1
           /\ status' = "ok" =>
                steps' = <<Step(IF op' = "SplitIntoFrequencyBands"
                                THEN "Analysis" ELSE "Synthesis",
                                -1, num_channels_)>>
    ]_vars

\* MergeFrequencyBands succeeded as the very first call on the instance.
C12_Witness ==
  /\ op = "MergeFrequencyBands" /\ status = "ok"
  /\ nops = 1 /\ inputs = 0 /\ lastMajor = "merge"
  /\ num_bands_ > 1

\* The sample the float side of data_ must hold for channel c after the most
\* recent input, computed from the producer's frame alone: the mean of the
\* input channels when everything is mixed into one processing channel,
\* input channel c otherwise, brought to the S16 float range and resampled
\* once when the input and processing frame counts differ.
ExpectedInputSample(c) ==
  LET in == producer[1].data
      n == num_input_channels_
      planar == producer[1].kind = "planar"
      mixed == IF num_proc_channels_ = 1 /\ (n > 1 \/ ~planar)
               THEN TruncDiv(SumV(in, n), n)
               ELSE in[c].v
      scaled == IF planar
                THEN Clamp(mixed, kMinInt16 * Frac, kMaxInt16 * Frac)
                ELSE mixed * Frac
  IN Smp("floatS16", scaled,
         IF input_num_frames_ # proc_num_frames_ THEN 1 ELSE 0)

\* C13: after a successful CopyFrom or DeinterleaveFrom, a read of the float
\* side of data_ gives, for every channel below num_channels_, the sample of
\* the frame that call was given, whichever side the call wrote.
C13_InputIsCurrent ==
  (op \in InputOps /\ status = "ok") =>
    /\ num_channels_ = num_proc_channels_
    /\ \A c \in Chans(num_channels_) :
         FbufConst(data_).fbuf[c][0] = ExpectedInputSample(c)

\* A second input, a same-rate DeinterleaveFrom after a CopyFrom, has written
\* the integer side of data_ and left the float side to be converted.
C13_Witness ==
  /\ op = "DeinterleaveFrom" /\ status = "ok"
  /\ inputs = 2 /\ ranCopyFrom
  /\ input_num_frames_ = proc_num_frames_
  /\ ~data_.fvalid
  /\ num_channels_ = 2

\* The dual-format buffers the instance holds.
DualFormatBuffers ==
  {data_, output_buffer_}
  \cup (IF Exists(split_data_) THEN {split_data_[1]} ELSE {})
  \cup (IF Exists(input_buffer_) THEN {input_buffer_[1]} ELSE {})

\* A written sample as each side shows it.
AsFloatSide(x) == IF x.dom = "s16" THEN S16ToFloatS16(x) ELSE x
AsIntSide(x) == IF x.dom = "s16" THEN x ELSE FloatS16ToS16(x)

\* Both sides of b read as the last write of every active channel's samples.
ReadsAsLastWrite(b) ==
  \A c \in Chans(b.num_channels) : \A k \in Chans(b.num_bands) :
     /\ FbufConst(b).fbuf[c][k] = AsFloatSide(b.last[c][k])
     /\ IbufConst(b).ibuf[c][k] = AsIntSide(b.last[c][k])

\* C14: in every reachable state, each dual-format buffer has at most one
\* dirty side, each side was converted at most once since the last write,
\* and a read of either side gives the samples last written to the buffer.
C14_DualFormatConsistency ==
  \A b \in DualFormatBuffers :
     /\ b.fvalid \/ b.ivalid
     /\ b.fconv <= 1 /\ b.iconv <= 1
     /\ ReadsAsLastWrite(b)

\* Channel c of the full-band buffer data_ as an output operation delivers
\* it: CopyTo converts the float side and resamples when the rates differ;
\* InterleaveTo resamples the float side when the rates differ and delivers
\* the integer form.
OutputOfData(kind, c) ==
  LET f == FbufConst(data_).fbuf[c][0]
      resample == output_num_frames_ # proc_num_frames_
  IN IF kind = "CopyTo"
     THEN Smp("float", f.v, f.rs + (IF resample THEN 1 ELSE 0))
     ELSE IF resample
     THEN Smp("s16", Clamp(RoundHalfAway(f.v), kMinInt16, kMaxInt16), f.rs + 1)
     ELSE IbufConst(data_).ibuf[c][0]

\* The float side of the full-band block of the active channels of data_.
FullBandFloat(d) ==
  [c \in Chans(d.num_channels) |-> FbufConst(d).fbuf[c][0]]

\* C15: CopyTo and InterleaveTo deliver the content of data_ and nothing
\* else.  With num_bands_ > 1 a write through a band view leaves data_ as it
\* was, and only MergeFrequencyBands brings the bands of split_data_ into
\* data_.  With num_bands_ = 1 the band views are views of data_, so the
\* write is in data_ at once, and split_channels_const_f gives data_ for
\* band 0 and nothing for any other band.
C15_OutputReadsFullBand ==
  [][ /\ (op' \in OutputOps /\ status' = "ok") =>
           \A c \in Chans(num_channels_) :
              consumer'[1].data[c] = OutputOfData(op', c)
      /\ (op' \in {"split_bands_f", "CopySplitChannelDataFrom"}
            /\ num_bands_ > 1) =>
           /\ data_' = data_
           /\ (status' = "ok" /\ op' = "split_bands_f") =>
                /\ view' = "split_data"
                /\ \E c \in Chans(num_channels_), k \in Chans(num_bands_) :
                     FbufConst(split_data_'[1]).fbuf[c][k] =
                        Smp("floatS16", 7 * Frac + 1, 0)
           /\ (status' = "ok" /\ op' = "CopySplitChannelDataFrom") =>
                \A k \in Chans(num_bands_) :
                   FbufConst(split_data_'[1]).fbuf[producer'[1].channel][k] =
                      S16ToFloatS16(producer'[1].data[k])
      /\ (op' = "MergeFrequencyBands" /\ status' = "ok") =>
           \A c \in Chans(num_channels_) :
              FbufConst(data_').fbuf[c][0].v =
                 SumV(FbufConst(split_data_[1]).fbuf[c], num_bands_)
      /\ (op' = "split_bands_f" /\ status' = "ok" /\ num_bands_ = 1) =>
           /\ view' = "data"
           /\ \E c \in Chans(num_channels_) :
                FbufConst(data_').fbuf[c][0] = Smp("floatS16", 7 * Frac + 1, 0)
      /\ (op' = "CopySplitChannelDataFrom" /\ status' = "ok"
            /\ num_bands_ = 1) =>
           FbufConst(data_').fbuf[producer'[1].channel][0] =
              S16ToFloatS16(producer'[1].data[0])
      /\ \A band \in 0 .. MaxBand :
           (split_channels_const_f(band) /\ num_bands_ = 1) =>
              view' = IF band = 0 THEN "data" ELSE "null"
    ]_vars

\* With three bands, a band block written after SplitIntoFrequencyBands has
\* reached a CopyTo consumer through MergeFrequencyBands.
C15_Witness ==
  /\ op = "CopyTo" /\ status = "ok"
  /\ num_bands_ = 3 /\ lastMajor = "merge" /\ writes = 1 /\ inputs = 0
  /\ \E c \in DOMAIN consumer[1].data : consumer[1].data[c].v = 7 * Frac + 1

\* C16: CopyFrom downmixes exactly when num_input_channels_ > 1 and
\* num_proc_channels_ = 1, and processing channel 0 is then the mean of all
\* input channels; otherwise processing channel i holds input channel i
\* alone, and the input channels from num_proc_channels_ on go nowhere.
C16_CopyFromPathSelection ==
  [][ (op' = "CopyFrom" /\ status' = "ok") =>
        LET in == producer'[1].data
            n == num_input_channels_
            mean == TruncDiv(SumV(in, n), n)
            got == FullBandFloat(data_')
        IN /\ ("DownmixToMono" \in StepNames(steps')) <=>
                (n > 1 /\ num_proc_channels_ = 1)
           /\ DOMAIN got = Chans(num_proc_channels_)
           /\ IF n > 1 /\ num_proc_channels_ = 1
              THEN /\ n * mean - SumV(in, n) \in (1 - n) .. (n - 1)
                   /\ got[0].v = Clamp(mean, kMinInt16 * Frac, kMaxInt16 * Frac)
              ELSE \A i \in Chans(num_proc_channels_) :
                      got[i].v = Clamp(in[i].v, kMinInt16 * Frac, kMaxInt16 * Frac)
    ]_vars

\* A CopyFrom of three input channels into two processing channels: no
\* downmix, and the third input channel is not used.
C16_Witness ==
  /\ op = "CopyFrom" /\ status = "ok"
  /\ num_input_channels_ = 3 /\ num_proc_channels_ = 2
  /\ "DownmixToMono" \notin StepNames(steps)
  /\ \A i \in Chans(2) :
       /\ FullBandFloat(data_)[i].v # producer[1].data[2].v
       /\ FullBandFloat(data_)[i].v # 0

\* The arguments a DeinterleaveFrom call of the model can be given.
DeinterleaveArgs ==
  (1 .. (MaxChannels + 1)) \X CallerFrames \X (0 .. (NumPatterns - 1))

\* What DeinterleaveFrom accepts: a frame of the constructed shape, and one
\* processing channel or as many as the input has.
DeinterleaveAccepted(ch, f) ==
  /\ ch = num_input_channels_ /\ f = input_num_frames_
  /\ num_proc_channels_ = 1 \/ num_proc_channels_ = num_input_channels_

\* C17: DeinterleaveFrom succeeds only on a frame of the constructed shape
\* with num_proc_channels_ = 1 or num_proc_channels_ = num_input_channels_;
\* every other call is fatal, and leaves num_channels_ and the buffers as
\* they were.
C17_RejectionLeavesStateUntouched ==
  [][ \A a \in DeinterleaveArgs :
        DeinterleaveFrom(a[1], a[2], a[3]) =>
          /\ status' = "ok" <=> DeinterleaveAccepted(a[1], a[2])
          /\ status' # "ok" =>
               /\ status' = "abort"
               /\ UNCHANGED <<num_channels_, data_, split_data_, input_buffer_,
                              output_buffer_, process_buffer_>>
    ]_vars

\* C17, amended: the acceptance is as stated and every other call is fatal.
\* A frame of the wrong shape is rejected before anything is modified.  The
\* check of 1 < num_proc_channels_ < num_input_channels_ comes later: by then
\* num_channels_ is num_proc_channels_, input_buffer_ exists if the rates
\* differ and the destination's integer view is taken, but no sample of the
\* frame has been stored and the float samples of data_ are as they were.
C17_DeinterleaveRejections ==
  [][ \A a \in DeinterleaveArgs :
        DeinterleaveFrom(a[1], a[2], a[3]) =>
          /\ status' = "ok" <=> DeinterleaveAccepted(a[1], a[2])
          /\ status' # "ok" => status' = "abort"
          /\ (a[1] # num_input_channels_ \/ a[2] # input_num_frames_) =>
               UNCHANGED <<num_channels_, data_, split_data_, input_buffer_,
                           output_buffer_, process_buffer_, heap_allocs>>
          /\ (a[1] = num_input_channels_ /\ a[2] = input_num_frames_
                /\ status' # "ok") =>
               /\ 1 < num_proc_channels_
               /\ num_proc_channels_ < num_input_channels_
               /\ num_channels_' = num_proc_channels_
               /\ Exists(input_buffer_') <=>
                    (Exists(input_buffer_)
                       \/ input_num_frames_ # proc_num_frames_)
               /\ StepNames(steps') \subseteq
                    {"InitForNewData", "AllocInputBuffer"}
               /\ data_'.fbuf = data_.fbuf
               /\ UNCHANGED <<output_buffer_, process_buffer_>>
    ]_vars

\* The first call on a buffer of three input and two processing channels
\* with different rates is a DeinterleaveFrom of the right shape: it is
\* rejected, and input_buffer_ has been allocated.
C17_Witness ==
  /\ op = "DeinterleaveFrom" /\ status = "abort"
  /\ num_input_channels_ = 3 /\ num_proc_channels_ = 2
  /\ nops = 1 /\ Exists(input_buffer_) /\ heap_allocs = 1

IoOps == {"CopyFrom", "DeinterleaveFrom", "set_num_channels", "CopyTo",
          "InterleaveTo"}

\* C18: no CopyFrom, DeinterleaveFrom, set_num_channels, CopyTo or
\* InterleaveTo ends in a null dereference or an index past the end of a
\* resampler vector: process_buffer_ is touched only when a rate differs from
\* the processing rate and then exists, input_buffer_ only once allocated,
\* and every resampler index is below the number of resamplers created.
C18_NoMissingResource ==
  /\ op \in IoOps => status \notin {"segv", "ub"}
  /\ \A u \in uses :
       CASE u[1] = "process_buffer" ->
              /\ Exists(process_buffer_)
              /\ input_num_frames_ # proc_num_frames_
                   \/ output_num_frames_ # proc_num_frames_
         [] u[1] = "input_buffer" -> Exists(input_buffer_)
         [] u[1] = "input_resampler" ->
              /\ u[2] < Len(input_resamplers_)
              /\ u[2] < num_proc_channels_
         [] u[1] = "output_resampler" ->
              /\ u[2] < Len(output_resamplers_)
              /\ u[2] < num_channels_ /\ num_channels_ <= num_proc_channels_
         [] OTHER -> FALSE

\* A downmixing, resampling CopyFrom after a DeinterleaveFrom has used
\* input_buffer_, process_buffer_ and a resampler.
C18_Witness ==
  /\ op = "CopyFrom" /\ status = "ok" /\ ranDeinterleaveFrom
  /\ {<<"input_buffer", -1>>, <<"process_buffer", -1>>,
      <<"input_resampler", 0>>} \subseteq uses

SplitCopyOps == {"CopySplitChannelDataFrom", "CopySplitChannelDataTo"}

\* The float samples of every active channel of the band buffer but one.
OtherChannels(b, channel) ==
  [c \in Chans(b.num_channels) \ {channel} |-> FbufConst(b).fbuf[c]]

\* C19: CopySplitChannelDataTo(channel) right after
\* CopySplitChannelDataFrom(channel, src) delivers src in every band, the
\* int16 extremes included, from split_data_ and, with one band, from data_;
\* and either helper leaves the samples of every other channel, and of the
\* buffer the bands are not in, as they were.
C19_SplitBandRoundTrip ==
  [][ /\ (op = "CopySplitChannelDataFrom" /\ status = "ok"
            /\ op' = "CopySplitChannelDataTo" /\ status' = "ok"
            /\ consumer'[1].channel = producer[1].channel) =>
           /\ DOMAIN consumer'[1].data = Chans(num_bands_)
           /\ \A k \in Chans(num_bands_) :
                consumer'[1].data[k] = producer[1].data[k]
      /\ (op' \in SplitCopyOps /\ status' = "ok") =>
           LET channel == IF op' = "CopySplitChannelDataFrom"
                          THEN producer'[1].channel
                          ELSE consumer'[1].channel
           IN /\ OtherChannels(BandBuffer', channel)
                   = OtherChannels(BandBuffer, channel)
              /\ Exists(split_data_) => data_' = data_
    ]_vars

\* Channel 1 of a three-band buffer has given back the blocks it was given,
\* -32768 and 32767 among them.
C19_Witness ==
  /\ op = "CopySplitChannelDataTo" /\ status = "ok"
  /\ num_bands_ = 3 /\ writes = 1
  /\ producer # <<>> /\ producer[1].kind = "split"
  /\ producer[1].channel = 1 /\ consumer[1].channel = 1
  /\ consumer[1].data = producer[1].data
  /\ {kMinInt16, kMaxInt16} \subseteq
       {consumer[1].data[k].v : k \in Chans(num_bands_)}

====
